---- MODULE Spec2Model ----
\* Model of src/main.py: the image proxy endpoint (proxy_image) with its
\* upstream, and the two contact endpoints with the document store.
\* Python strings that the handlers inspect or build (src, detail messages)
\* are sequences of one-character strings; header names and values that are
\* only copied are TLA+ strings.
EXTENDS Integers, Sequences, FiniteSets, TLC

VARIABLES pc, src, resp, out, calls, upstream, db, docs, cOut

vars == <<pc, src, resp, out, calls, upstream, db, docs, cOut>>
proxyVars == <<pc, src, resp, out, calls>>
storeVars == <<db, docs, cOut>>

\* ---------------------------------------------------------------- bounds
NumInv == 2
MaxDocs == 2

Procs == 1..NumInv

\* ------------------------------------------------------ program constants
Timeout == 10
StatusOK == 200
StatusInvalidURL == 400
StatusTimeout == 504
StatusProxyError == 500
StatusDbError == 500
DefaultLimit == 10

\* ---------------------------------------------------------------- strings
StartsWith(s, p) == Len(s) >= Len(p) /\ SubSeq(s, 1, Len(p)) = p

Contains(s, p) ==
    \E k \in 0..(Len(s) - Len(p)) : SubSeq(s, k + 1, k + Len(p)) = p

DigitChar(d) == <<"0", "1", "2", "3", "4", "5", "6", "7", "8", "9">>[d + 1]

RECURSIVE Str(_)
Str(n) == IF n < 10 THEN <<DigitChar(n)>>
          ELSE Str(n \div 10) \o <<DigitChar(n % 10)>>

HttpsPrefix == <<"h", "t", "t", "p", "s", ":", "/", "/">>
HttpPrefix == <<"h", "t", "t", "p", ":", "/", "/">>

InvalidURLDetail == <<"I", "n", "v", "a", "l", "i", "d", " ", "U", "R", "L">>
UpstreamFailedPrefix ==
    <<"U", "p", "s", "t", "r", "e", "a", "m", " ",
      "f", "a", "i", "l", "e", "d", ":", " ">>
TimedOutDetail ==
    <<"I", "m", "a", "g", "e", " ", "f", "e", "t", "c", "h", " ",
      "t", "i", "m", "e", "d", " ", "o", "u", "t">>
ProxyErrorPrefix ==
    <<"P", "r", "o", "x", "y", " ", "e", "r", "r", "o", "r", ":", " ">>
DbNotConfiguredDetail ==
    <<"D", "a", "t", "a", "b", "a", "s", "e", " ", "n", "o", "t", " ",
      "c", "o", "n", "f", "i", "g", "u", "r", "e", "d">>

\* ------------------------------------------------------------- exceptions
\* An exception is [cls, status, detail]; detail is str(e) for the ones
\* that are not HTTPException, whose status is 0.
HTTPException(status, detail) ==
    [cls |-> "HTTPException", status |-> status, detail |-> detail]

Raise(cls, msg) == [cls |-> cls, status |-> 0, detail |-> msg]

\* Base classes of each exception class (the class itself included).
Bases(cls) ==
    CASE cls = "HTTPException" -> {"HTTPException", "Exception"}
      [] cls = "ConnectTimeout" ->
            {"ConnectTimeout", "ConnectionError", "Timeout",
             "RequestException", "Exception"}
      [] cls = "ReadTimeout" ->
            {"ReadTimeout", "Timeout", "RequestException", "Exception"}
      [] cls = "ConnectionError" ->
            {"ConnectionError", "RequestException", "Exception"}
      [] cls = "InvalidURL" ->
            {"InvalidURL", "RequestException", "Exception"}
      [] OTHER -> {cls, "Exception"}

IsInstance(e, cls) == cls \in Bases(e.cls)

\* ------------------------------------------------------------ image proxy
\* Values of the src query parameter.
Srcs ==
    { <<>>,
      <<"/", "a">>,
      <<"f", "t", "p", ":", "/", "/", "a">>,
      <<"f", "i", "l", "e", ":", "/", "/", "a">>,
      <<"H", "T", "T", "P", ":", "/", "/", "a">>,
      <<"h", "t", "t", "p", ":", "/", "a">>,
      HttpPrefix \o <<"a">>,
      HttpsPrefix \o <<"a">>,
      HttpsPrefix }

NoHeaders == [h \in {} |-> ""]
ContentType(v) == [h \in {"Content-Type"} |-> v]

\* What the upstream host may answer: status line, headers, complete body.
Answers ==
    { [status |-> 200, headers |-> ContentType("image/png"), content |-> <<7, 9>>],
      [status |-> 200, headers |-> NoHeaders, content |-> <<7, 9>>],
      [status |-> 206, headers |-> ContentType("image/png"), content |-> <<7>>],
      [status |-> 304, headers |-> NoHeaders, content |-> <<>>],
      [status |-> 404, headers |-> ContentType("text/html"), content |-> <<4>>],
      [status |-> 504, headers |-> NoHeaders, content |-> <<>>] }

Latencies == {Timeout - 1, Timeout, Timeout + 1}
Phases == {"connect", "read"}
Faults == {"none", "reset"}

FaultMsg(f) == <<"r", "s", "t">>
NoHostMsg == <<"n", "o", " ", "h", "o", "s", "t">>
SlowMsg == <<"s", "l", "o", "w">>

NoResp == [kind |-> "none"]
NoOut == [kind |-> "none"]
NoContactOut == [op |-> "none"]

\* src.startswith("https://") or src.startswith("http://")
SchemeAllowedLoose(s) == StartsWith(s, <<"h", "t", "t", "p">>)
SchemeAllowed(s) == StartsWith(s, HttpsPrefix) \/ StartsWith(s, HttpPrefix)

\* The URL names a host after its scheme; requests refuses the others
\* before it opens a connection.
HasHost(s) ==
    \/ StartsWith(s, HttpsPrefix) /\ Len(s) > Len(HttpsPrefix)
    \/ StartsWith(s, HttpPrefix) /\ Len(s) > Len(HttpPrefix)

\* requests.get(src, headers=headers, timeout=10): the Response, with its
\* body read in full, or the exception raised.
RequestsGet(url, up, lat, phase, fault) ==
    IF ~HasHost(url)
      THEN [kind |-> "exc", exc |-> Raise("InvalidURL", NoHostMsg)]
    ELSE IF fault # "none"
      THEN [kind |-> "exc", exc |-> Raise("ConnectionError", FaultMsg(fault))]
    ELSE IF lat > Timeout
      THEN [kind |-> "exc",
            exc |-> Raise(IF phase = "connect" THEN "ConnectTimeout"
                          ELSE "ReadTimeout", SlowMsg)]
    ELSE [kind |-> "resp", status_code |-> up.status,
          headers |-> up.headers, content |-> up.content]

\* resp.status_code != 200 is the negation of this
StatusIsSuccessAny2xx(s) == s >= 200 /\ s < 300
StatusIsSuccess(s) == s = StatusOK

\* HTTPException(status_code=resp.status_code, detail=f"Upstream failed: ...")
UpstreamFailureAsBadGateway(s) == HTTPException(502, UpstreamFailedPrefix \o Str(s))
UpstreamFailure(s) == HTTPException(s, UpstreamFailedPrefix \o Str(s))

\* resp.headers.get("Content-Type", "image/jpeg")
HeaderOrDefaultAlwaysDefault(headers) == "image/jpeg"
HeaderOrDefault(headers) ==
    IF "Content-Type" \in DOMAIN headers THEN headers["Content-Type"]
    ELSE "image/jpeg"

CacheHeaders(content_type) ==
    [h \in {"Cache-Control", "Content-Type", "X-Image-Proxy"} |->
        CASE h = "Cache-Control" -> "public, max-age=86400"
          [] h = "Content-Type" -> content_type
          [] h = "X-Image-Proxy" -> "1"]

\* Response(content=resp.content, media_type=content_type, headers=...)
Response(content, media_type, headers) ==
    [kind |-> "response", status |-> StatusOK, detail |-> <<>>,
     body |-> content, headers |-> headers]

\* The answer the framework sends for an HTTPException leaving the handler,
\* and the fault recorded when any other exception leaves it.
ErrorResponse(e) ==
    IF e.cls = "HTTPException"
      THEN [kind |-> "error", status |-> e.status, detail |-> e.detail,
            body |-> <<>>, headers |-> NoHeaders]
      ELSE [kind |-> "uncaught", status |-> 500, detail |-> e.detail,
            body |-> <<>>, headers |-> NoHeaders]

\* The except clauses of proxy_image, in their order: the exception that
\* leaves the handler.
ExceptClausesGenericFirst(e) ==
    IF IsInstance(e, "HTTPException") THEN e
    ELSE IF IsInstance(e, "Exception")
      THEN HTTPException(StatusProxyError, ProxyErrorPrefix \o e.detail)
    ELSE IF IsInstance(e, "Timeout")
      THEN HTTPException(StatusTimeout, TimedOutDetail)
    ELSE e
ExceptClausesNoGeneric(e) ==
    IF IsInstance(e, "HTTPException") THEN e
    ELSE IF IsInstance(e, "Timeout")
      THEN HTTPException(StatusTimeout, TimedOutDetail)
    ELSE e
ExceptClauses(e) ==
    IF IsInstance(e, "HTTPException") THEN e
    ELSE IF IsInstance(e, "Timeout")
      THEN HTTPException(StatusTimeout, TimedOutDetail)
    ELSE IF IsInstance(e, "Exception")
      THEN HTTPException(StatusProxyError, ProxyErrorPrefix \o e.detail)
    ELSE e

\* The handler's local variable resp of invocation i.
SharedResp(i) == IF resp[1].kind = "none" THEN resp[i] ELSE resp[1]
LocalResp(i) == resp[i]

\* Lines 101-111 of the try body, after requests.get has returned r.
AfterGet(r) ==
    IF ~StatusIsSuccess(r.status_code)
      THEN ErrorResponse(ExceptClauses(UpstreamFailure(r.status_code)))
      ELSE Response(r.content, HeaderOrDefault(r.headers),
                    CacheHeaders(HeaderOrDefault(r.headers)))

\* The request arrives and the handler checks the scheme of src.
ProxyBegin(i, s) ==
    /\ pc[i] = "idle"
    /\ src' = [src EXCEPT ![i] = s]
    /\ IF ~SchemeAllowed(s)
         THEN /\ out' = [out EXCEPT ![i] = ErrorResponse(ExceptClauses(
                            HTTPException(StatusInvalidURL, InvalidURLDetail)))]
              /\ pc' = [pc EXCEPT ![i] = "done"]
         ELSE /\ out' = out
              /\ pc' = [pc EXCEPT ![i] = "fetch"]
    /\ UNCHANGED <<resp, calls, upstream, storeVars>>

\* The blocking call resp = requests.get(...).
ProxyFetchRetry(i) ==
    /\ pc[i] = "fetch"
    /\ \E lat \in Latencies, phase \in Phases, fault \in Faults :
         LET r == RequestsGet(src[i], upstream, lat, phase, fault) IN
           /\ resp' = [resp EXCEPT ![i] = r]
           /\ calls' = [calls EXCEPT ![i] = IF r.kind = "exc" THEN @ + 2 ELSE @ + 1]
    /\ pc' = [pc EXCEPT ![i] = "fetched"]
    /\ UNCHANGED <<src, out, upstream, storeVars>>
ProxyFetchCached(i) ==
    /\ pc[i] = "fetch"
    /\ IF \E j \in Procs : j # i /\ src[j] = src[i] /\ resp[j].kind = "resp"
         THEN /\ resp' = [resp EXCEPT ![i] =
                    resp[CHOOSE j \in Procs :
                           j # i /\ src[j] = src[i] /\ resp[j].kind = "resp"]]
              /\ calls' = calls
         ELSE \E lat \in Latencies, phase \in Phases, fault \in Faults :
                /\ resp' = [resp EXCEPT ![i] =
                              RequestsGet(src[i], upstream, lat, phase, fault)]
                /\ calls' = [calls EXCEPT ![i] = @ + 1]
    /\ pc' = [pc EXCEPT ![i] = "fetched"]
    /\ UNCHANGED <<src, out, upstream, storeVars>>
ProxyFetch(i) ==
    /\ pc[i] = "fetch"
    /\ \E lat \in Latencies, phase \in Phases, fault \in Faults :
         resp' = [resp EXCEPT ![i] =
                    RequestsGet(src[i], upstream, lat, phase, fault)]
    /\ calls' = [calls EXCEPT ![i] = @ + 1]
    /\ pc' = [pc EXCEPT ![i] = "fetched"]
    /\ UNCHANGED <<src, out, upstream, storeVars>>

\* The rest of the handler: the status check and the response, or the
\* except clause that matches what requests.get raised.
ProxyRespond(i) ==
    /\ pc[i] = "fetched"
    /\ out' = [out EXCEPT ![i] =
                 IF LocalResp(i).kind = "exc"
                   THEN ErrorResponse(ExceptClauses(LocalResp(i).exc))
                   ELSE AfterGet(LocalResp(i))]
    /\ pc' = [pc EXCEPT ![i] = "done"]
    /\ UNCHANGED <<src, resp, calls, upstream, storeVars>>

\* The third-party host changes what it serves.
UpstreamChange(a) ==
    /\ a # upstream
    /\ upstream' = a
    /\ UNCHANGED <<proxyVars, storeVars>>

InitProxy ==
    /\ pc = [i \in Procs |-> "idle"]
    /\ src = [i \in Procs |-> <<>>]
    /\ resp = [i \in Procs |-> NoResp]
    /\ out = [i \in Procs |-> NoOut]
    /\ calls = [i \in Procs |-> 0]
    /\ upstream \in Answers
    /\ db = "db"
    /\ docs = <<>>
    /\ cOut = NoContactOut

NextProxy ==
    \/ \E i \in Procs, s \in Srcs : ProxyBegin(i, s)
    \/ \E i \in Procs : ProxyFetch(i)
    \/ \E i \in Procs : ProxyRespond(i)
    \/ \E a \in Answers : UpstreamChange(a)

SpecProxy == InitProxy /\ [][NextProxy]_vars

\* ------------------------------------------------------- contact endpoints
ContactCollection == "contactmessage"

\* Request bodies that passed the ContactIn validation.
Payloads ==
    { [name |-> "Al", message |-> "hello"],
      [name |-> "Bo", message |-> "howdy"] }
Times == {1, 2}
Limits == {1, 2, DefaultLimit}
StoreFaults == {"none", "down", "auth"}

StoreMsg(f) == IF f = "down" THEN <<"d", "o", "w", "n">> ELSE <<"a", "u", "t", "h">>


\* create_document(collection, data) -> id: the store after the insert and
\* the id it returns.
CreateDocument(store, collection, data) ==
    LET id == Len(store) + 1 IN
      [docs |-> Append(store, [coll |-> collection, _id |-> id,
                               name |-> data.name, message |-> data.message,
                               received_at |-> data.received_at]),
       id |-> Str(id)]

\* get_documents(collection, filter, limit) -> list of records, with the
\* empty filter the handler passes.
GetDocuments(store, collection, limit) ==
    LET found == SelectSeq(store, LAMBDA d : d.coll = collection) IN
      SubSeq(found, 1, IF Len(found) < limit THEN Len(found) ELSE limit)

\* v.isoformat() of a datetime
IsoFormat(t) == <<"T">> \o Str(t)

\* serialize(doc) in list_contact_messages
Serialize(doc) ==
    [_id |-> Str(doc._id), name |-> doc.name, message |-> doc.message,
     received_at |-> IsoFormat(doc.received_at)]

\* str(e) of an HTTPException
HTTPExceptionStr(e) == Str(e.status) \o <<":", " ">> \o e.detail

\* The except clauses of both contact handlers: the exception that leaves.
ContactExceptClausesNoReraise(e) ==
    IF IsInstance(e, "HTTPException")
      THEN HTTPException(StatusDbError, HTTPExceptionStr(e))
    ELSE IF IsInstance(e, "Exception")
      THEN HTTPException(StatusDbError, e.detail)
    ELSE e
ContactExceptClauses(e) ==
    IF IsInstance(e, "HTTPException") THEN e
    ELSE IF IsInstance(e, "Exception")
      THEN HTTPException(StatusDbError, e.detail)
    ELSE e

ContactError(op, e, creates, gets, raised) ==
    [op |-> op, kind |-> IF e.cls = "HTTPException" THEN "error" ELSE "uncaught",
     status |-> IF e.cls = "HTTPException" THEN e.status ELSE 500,
     detail |-> e.detail, body |-> <<>>,
     creates |-> creates, gets |-> gets, coll |-> ContactCollection,
     raised |-> raised]

ContactOk(op, body, creates, gets) ==
    [op |-> op, kind |-> "response", status |-> StatusOK, detail |-> <<>>,
     body |-> body, creates |-> creates, gets |-> gets,
     coll |-> ContactCollection, raised |-> <<>>]

\* POST /api/contact
CreateContactMessage(payload, now, fault) ==
    IF db = "None"
      THEN /\ cOut' = ContactError("POST", ContactExceptClauses(
                         HTTPException(StatusDbError, DbNotConfiguredDetail)),
                         0, 0, <<>>)
           /\ docs' = docs
    ELSE IF fault # "none"
      THEN /\ cOut' = ContactError("POST", ContactExceptClauses(
                         Raise("Exception", StoreMsg(fault))), 1, 0,
                         StoreMsg(fault))
           /\ docs' = docs
    ELSE LET data == [name |-> payload.name, message |-> payload.message,
                      received_at |-> now]
             r == CreateDocument(docs, ContactCollection, data) IN
           /\ Len(docs) < MaxDocs
           /\ docs' = r.docs
           /\ cOut' = ContactOk("POST", [success |-> TRUE, id |-> r.id], 1, 0)

\* GET /api/contact
ListContactMessages(limit, fault) ==
    /\ docs' = docs
    /\ IF db = "None"
         THEN cOut' = ContactError("GET", ContactExceptClauses(
                         HTTPException(StatusDbError, DbNotConfiguredDetail)),
                         0, 0, <<>>)
       ELSE IF fault # "none"
         THEN cOut' = ContactError("GET", ContactExceptClauses(
                         Raise("Exception", StoreMsg(fault))), 0, 1,
                         StoreMsg(fault))
       ELSE LET found == GetDocuments(docs, ContactCollection, limit) IN
              cOut' = ContactOk("GET",
                         [items |-> [k \in 1..Len(found) |-> Serialize(found[k])]],
                         0, 1)

PostContact ==
    /\ \E p \in Payloads, t \in Times, f \in StoreFaults :
         CreateContactMessage(p, t, f)
    /\ UNCHANGED <<db, proxyVars, upstream>>

GetContact ==
    /\ \E l \in Limits, f \in StoreFaults : ListContactMessages(l, f)
    /\ UNCHANGED <<db, proxyVars, upstream>>

NextContact == PostContact \/ GetContact

InitContact ==
    /\ pc = [i \in Procs |-> "idle"]
    /\ src = [i \in Procs |-> <<>>]
    /\ resp = [i \in Procs |-> NoResp]
    /\ out = [i \in Procs |-> NoOut]
    /\ calls = [i \in Procs |-> 0]
    /\ upstream = [status |-> 200, headers |-> NoHeaders, content |-> <<7, 9>>]
    /\ db \in {"None", "db"}
    /\ docs = <<>>
    /\ cOut = NoContactOut

SpecContact == InitContact /\ [][NextContact]_vars

Init ==
    /\ pc = [i \in Procs |-> "idle"]
    /\ src = [i \in Procs |-> <<>>]
    /\ resp = [i \in Procs |-> NoResp]
    /\ out = [i \in Procs |-> NoOut]
    /\ calls = [i \in Procs |-> 0]
    /\ upstream \in Answers
    /\ db \in {"None", "db"}
    /\ docs = <<>>
    /\ cOut = NoContactOut
Next == NextProxy \/ NextContact
Spec == Init /\ [][Next]_vars

\* ------------------------------------------------------------------ claims
Started(i) == pc[i] # "idle"
Done(i) == pc[i] = "done"
HasPrefix(s) == StartsWith(s, HttpPrefix) \/ StartsWith(s, HttpsPrefix)
Answered(i) == resp[i].kind = "resp"
Failed(i) == resp[i].kind = "exc"
TimedOut(i) ==
    Failed(i) /\ resp[i].exc.cls \in {"ConnectTimeout", "ReadTimeout"}

\* C1: an invocation whose src starts with neither "http://" nor "https://"
\* is answered 400 with detail "Invalid URL" as soon as it has started, has
\* issued no requests.get call and holds no fetch result.
C1_InvalidSrcRejected ==
    \A i \in Procs :
        (Started(i) /\ ~HasPrefix(src[i])) =>
            /\ Done(i)
            /\ out[i].kind = "error"
            /\ out[i].status = 400
            /\ out[i].detail = InvalidURLDetail
            /\ calls[i] = 0
            /\ resp[i] = NoResp

C1_Witness ==
    \E i \in Procs :
        /\ Done(i)
        /\ src[i] = <<"H", "T", "T", "P", ":", "/", "/", "a">>
        /\ out[i].status = 400

\* C2: a success response exists only for an invocation whose upstream
\* status was exactly 200; with any other upstream status the finished
\* invocation is an error that relays no body.
C2_SuccessOnlyOn200 ==
    \A i \in Procs :
        /\ out[i].kind = "response" =>
              Answered(i) /\ resp[i].status_code = 200
        /\ (Done(i) /\ Answered(i) /\ resp[i].status_code # 200) =>
              out[i].kind = "error" /\ out[i].body = <<>>

C2_Witness ==
    \E i \in Procs :
        /\ Done(i) /\ Answered(i)
        /\ resp[i].status_code = 206
        /\ resp[i].content # <<>>
        /\ out[i].kind = "error"

\* C3: for an upstream status s other than 200 the finished invocation is an
\* error with status exactly s whose detail contains the decimal digits of
\* s; it is not the 500 of the generic handler unless s is 500.
C3_UpstreamStatusPassedThrough ==
    \A i \in Procs :
        (Done(i) /\ Answered(i) /\ resp[i].status_code # 200) =>
            /\ out[i].kind = "error"
            /\ out[i].status = resp[i].status_code
            /\ Contains(out[i].detail, Str(resp[i].status_code))
            /\ ~StartsWith(out[i].detail, ProxyErrorPrefix)
            /\ resp[i].status_code = 404 =>
                  Contains(out[i].detail, <<"4", "0", "4">>)

C3_Witness ==
    \E i \in Procs :
        /\ Done(i) /\ Answered(i)
        /\ resp[i].status_code = 404
        /\ out[i].status = 404

\* C4: for a valid src whose upstream answered 200 the response has status
\* 200, the whole upstream body, the upstream Content-Type when present and
\* image/jpeg otherwise, and the two fixed headers.
C4_SuccessResponse ==
    \A i \in Procs :
        (Done(i) /\ HasPrefix(src[i]) /\ Answered(i)
                 /\ resp[i].status_code = 200) =>
            /\ out[i].kind = "response"
            /\ out[i].status = 200
            /\ out[i].body = resp[i].content
            /\ DOMAIN out[i].headers =
                  {"Cache-Control", "Content-Type", "X-Image-Proxy"}
            /\ out[i].headers["Content-Type"] =
                  IF "Content-Type" \in DOMAIN resp[i].headers
                    THEN resp[i].headers["Content-Type"]
                    ELSE "image/jpeg"
            /\ out[i].headers["Cache-Control"] = "public, max-age=86400"
            /\ out[i].headers["X-Image-Proxy"] = "1"

C4_Witness ==
    \E i \in Procs :
        /\ Done(i) /\ Answered(i)
        /\ resp[i].status_code = 200
        /\ resp[i].headers = ContentType("image/png")
        /\ out[i].body = <<7, 9>>
        /\ out[i].headers["Content-Type"] = "image/png"

\* C5: a connect or read timeout of the fetch gives 504 with detail
\* "Image fetch timed out", never the 500 "Proxy error" answer; a 504 comes
\* only from a timeout or from an upstream that answered 504, and the
\* timeout detail only from a timeout.
C5_TimeoutIs504 ==
    \A i \in Procs :
        Done(i) =>
            /\ TimedOut(i) =>
                  /\ out[i].kind = "error"
                  /\ out[i].status = 504
                  /\ out[i].detail = TimedOutDetail
            /\ out[i].status = 504 =>
                  TimedOut(i) \/ (Answered(i) /\ resp[i].status_code = 504)
            /\ out[i].detail = TimedOutDetail => TimedOut(i)

C5_Witness ==
    \E i \in Procs :
        /\ Done(i) /\ Failed(i)
        /\ resp[i].exc.cls = "ConnectTimeout"
        /\ out[i].status = 504

\* C6: a finished invocation is in exactly one of the five outcomes, a fetch
\* failure that is neither a timeout nor a non-200 status is the 500 whose
\* detail starts "Proxy error: ", and nothing leaves the handler uncaught.
OutcomeKinds(i) ==
    { k \in {"Success", "InvalidURL", "Timeout", "UpstreamFailure", "ProxyError"} :
        CASE k = "Success" -> out[i].kind = "response" /\ out[i].status = 200
          [] k = "InvalidURL" ->
                /\ out[i].kind = "error" /\ out[i].status = 400
                /\ out[i].detail = InvalidURLDetail
          [] k = "Timeout" ->
                /\ out[i].kind = "error" /\ out[i].status = 504
                /\ out[i].detail = TimedOutDetail
          [] k = "UpstreamFailure" ->
                /\ out[i].kind = "error" /\ Answered(i)
                /\ out[i].status = resp[i].status_code
                /\ StartsWith(out[i].detail, UpstreamFailedPrefix)
          [] k = "ProxyError" ->
                /\ out[i].kind = "error" /\ out[i].status = 500
                /\ StartsWith(out[i].detail, ProxyErrorPrefix) }

C6_FiveOutcomes ==
    \A i \in Procs :
        Done(i) =>
            /\ out[i].kind # "uncaught"
            /\ Cardinality(OutcomeKinds(i)) = 1
            /\ (Failed(i) /\ ~TimedOut(i)) => OutcomeKinds(i) = {"ProxyError"}

C6_Witness ==
    \E i \in Procs :
        /\ Done(i) /\ Failed(i)
        /\ resp[i].exc.cls = "ConnectionError"
        /\ out[i].status = 500
        /\ StartsWith(out[i].detail, ProxyErrorPrefix)

\* C7 as stated: every finished invocation has issued exactly one outbound
\* call.
C7_ExactlyOneCallAlways ==
    \A i \in Procs : Done(i) => calls[i] = 1

\* C7 amended: an invocation issues at most one requests.get call, exactly
\* one once it is past the fetch with a src that passed the scheme check and
\* none when the src was rejected; after the call returns or fails the only
\* step left is the answer, with no further call; no step of the proxy
\* writes the document store.
C7_AtMostOneCallNoRetry ==
    /\ [](\A i \in Procs :
            /\ calls[i] <= 1
            /\ (pc[i] \in {"fetched", "done"} /\ HasPrefix(src[i])) => calls[i] = 1
            /\ (Done(i) /\ ~HasPrefix(src[i])) => calls[i] = 0)
    /\ [][\A i \in Procs :
            /\ calls'[i] # calls[i] => pc[i] = "fetch" /\ calls'[i] = calls[i] + 1
            /\ (pc[i] = "fetched" /\ pc'[i] # pc[i]) =>
                  pc'[i] = "done" /\ calls'[i] = calls[i]
            /\ docs' = docs]_vars

C7_Witness ==
    \E i \in Procs :
        /\ Done(i) /\ Failed(i)
        /\ calls[i] = 1
        /\ out[i].kind = "error"

\* The outcome of one invocation taken alone, from its src and the result of
\* its own fetch.
IsolatedOutcome(s, r) ==
    IF ~HasPrefix(s)
      THEN [kind |-> "error", status |-> 400, detail |-> InvalidURLDetail,
            body |-> <<>>, headers |-> NoHeaders]
    ELSE IF r.kind = "exc" THEN ErrorResponse(ExceptClauses(r.exc))
    ELSE AfterGet(r)

\* C8: whatever the interleaving, a finished invocation's outcome is the one
\* its own src and its own fetch result give; a step of one invocation or of
\* the upstream changes no variable of another invocation, and an outcome
\* once given does not change.
C8_InvocationsIndependent ==
    /\ [](\A i \in Procs : Done(i) => out[i] = IsolatedOutcome(src[i], resp[i]))
    /\ [][\A i \in Procs :
            (pc'[i] = pc[i]) =>
                /\ src'[i] = src[i] /\ resp'[i] = resp[i]
                /\ out'[i] = out[i] /\ calls'[i] = calls[i]]_vars
    /\ [][\A i \in Procs : Done(i) => Done(i)' /\ out'[i] = out[i]]_vars

C8_Witness ==
    \E i, j \in Procs :
        /\ i # j /\ Done(i) /\ Done(j)
        /\ src[i] = src[j]
        /\ TimedOut(i)
        /\ out[i].status = 504
        /\ out[j].kind = "response"

\* C9: two finished invocations with the same valid src that received the
\* same upstream answer have each issued their own requests.get call and
\* have identical bodies and headers.
C9_RepeatedCallsFreshAndEqual ==
    \A i, j \in Procs :
        (i # j /\ Done(i) /\ Done(j) /\ src[i] = src[j] /\ HasPrefix(src[i])
             /\ Answered(i) /\ Answered(j) /\ resp[i] = resp[j]) =>
            /\ calls[i] = 1 /\ calls[j] = 1
            /\ out[i].body = out[j].body
            /\ out[i].headers = out[j].headers
            /\ out[i] = out[j]

C9_Witness ==
    \E i, j \in Procs :
        /\ i # j /\ Done(i) /\ Done(j)
        /\ src[i] = src[j] /\ resp[i] = resp[j]
        /\ out[i].kind = "response" /\ out[j].kind = "response"
        /\ out[i].body = <<7, 9>> /\ out[j].body = <<7, 9>>
        /\ calls[i] = 1 /\ calls[j] = 1

\* C10: without a store handle both contact endpoints answer 500 "Database
\* not configured" and call neither store operation; with one, POST calls
\* create_document once on "contactmessage" and returns the inserted id, GET
\* calls get_documents once and writes nothing; an exception of the store
\* becomes a 500 carrying its message.
C10_ContactEndpoints ==
    /\ [](cOut.op # "none" =>
            /\ cOut.kind # "uncaught"
            /\ db = "None" =>
                  /\ cOut.kind = "error" /\ cOut.status = 500
                  /\ cOut.detail = DbNotConfiguredDetail
                  /\ cOut.creates = 0 /\ cOut.gets = 0
            /\ (db # "None" /\ cOut.op = "POST") =>
                  /\ cOut.creates = 1 /\ cOut.gets = 0
                  /\ cOut.coll = "contactmessage"
                  /\ cOut.raised = <<>> =>
                        /\ cOut.kind = "response"
                        /\ cOut.body.success
                        /\ Len(docs) > 0
                        /\ cOut.body.id = Str(docs[Len(docs)]._id)
            /\ (db # "None" /\ cOut.op = "GET") =>
                  /\ cOut.gets = 1 /\ cOut.creates = 0
                  /\ cOut.raised = <<>> => cOut.kind = "response"
            /\ (db # "None" /\ cOut.raised # <<>>) =>
                  /\ cOut.kind = "error" /\ cOut.status = 500
                  /\ cOut.detail = cOut.raised)
    /\ [][docs' # docs =>
            /\ db # "None"
            /\ cOut'.op = "POST" /\ cOut'.kind = "response"
            /\ Len(docs') = Len(docs) + 1
            /\ SubSeq(docs', 1, Len(docs)) = docs
            /\ docs'[Len(docs')].coll = "contactmessage"]_vars

C10_Witness ==
    /\ db = "None"
    /\ cOut.op = "GET"
    /\ cOut.status = 500
    /\ cOut.detail = DbNotConfiguredDetail

====
